---- MODULE Spec2Model ----
(***************************************************************************)
(* ProjectVisualizer: the JavaScript dependency-graph builder              *)
(* (server/app/workers/graph.py) and the POST /graph handler               *)
(* (server/app/routes/api_routes.py).                                      *)
(*                                                                         *)
(* Strings the code inspects character by character (node names,           *)
(* specifiers, URL paths) are sequences of one-character strings.          *)
(***************************************************************************)
EXTENDS Integers, Sequences, FiniteSets, TLC

VARIABLES
    root,       \* kind of the path given to create_graph_from_js_files
    tree,       \* the directory under the root: file -> [stat, read, content]
    order,      \* the order in which path.rglob("*.js") yields the files
    idx,        \* position of the for loop of create_graph_from_js_files in order
    G,          \* the nx.DiGraph being built: [nodes, edges]
    pcJ,        \* position of create_graph_from_js_files
    repo_url,   \* argument of create_graph_from_github_repo, as urlparse splits it
    pcR,        \* position of create_graph_from_github_repo
    tmpDir,     \* the directory of tempfile.mkdtemp(): "none", "exists", "removed"
    cloneAttempted, \* whether Repo.clone_from has been called
    exc,        \* the exception that left create_graph_from_github_repo
    data,       \* request.json of POST /graph
    pcH,        \* position of the /graph handler
    tmpPng,     \* the NamedTemporaryFile(suffix=".png"): "none", "exists", "removed"
    response,   \* what the handler returned
    labels,     \* the labels dict of visualize_graph
    pcV         \* position of visualize_graph

jsVars == <<root, order, idx, G, pcJ>>
repoVars == <<repo_url, pcR, tmpDir, cloneAttempted, exc>>
handlerVars == <<data, pcH, tmpPng, response>>
vizVars == <<labels, pcV>>
vars == <<tree, jsVars, repoVars, handlerVars, vizVars>>

----------------------------------------------------------------------------
(* Bounds *)

\* longest file content, in import statements
MaxStmts == 2
\* longest URL path, in characters
MaxPathLen == 5
\* deepest node name, in '/'-separated segments
MaxSegs == 3

----------------------------------------------------------------------------
(* Strings *)

A_JS == <<"a", ".", "j", "s">>
B_JS == <<"b", ".", "j", "s">>
LODASH == <<"l", "o", "d", "a", "s", "h">>
DOT_JS == <<".", "j", "s">>

\* str.endswith(suffix)
EndsWith(s, suffix) ==
    /\ Len(s) >= Len(suffix)
    /\ SubSeq(s, Len(s) - Len(suffix) + 1, Len(s)) = suffix

\* c in s
Contains(s, c) == \E i \in 1..Len(s) : s[i] = c

\* str.split(sep) for a one-character sep: "" gives [""], "a//b" gives ["a", "", "b"]
RECURSIVE Split(_, _)
Split(s, sep) ==
    IF ~Contains(s, sep) THEN <<s>>
    ELSE LET i == CHOOSE k \in 1..Len(s) : s[k] = sep /\ \A j \in 1..(k - 1) : s[j] # sep
         IN  <<SubSeq(s, 1, i - 1)>> \o Split(SubSeq(s, i + 1, Len(s)), sep)

\* str.strip(c) for a one-character c: drop the leading and the trailing c's
RECURSIVE Strip(_, _)
Strip(s, c) ==
    IF s = <<>> THEN s
    ELSE IF Head(s) = c THEN Strip(Tail(s), c)
    ELSE IF s[Len(s)] = c THEN Strip(SubSeq(s, 1, Len(s) - 1), c)
    ELSE s

\* sep.join(parts)
RECURSIVE Join(_, _)
Join(parts, sep) ==
    IF parts = <<>> THEN <<>>
    ELSE IF Len(parts) = 1 THEN parts[1]
    ELSE parts[1] \o <<sep>> \o Join(Tail(parts), sep)

\* number of occurrences of x in the sequence s
Count(s, x) == Cardinality({i \in 1..Len(s) : s[i] = x})

\* all orderings of the finite set S
Perms(S) ==
    {p \in [1..Cardinality(S) -> S] : \A i, j \in 1..Cardinality(S) : p[i] = p[j] => i = j}

----------------------------------------------------------------------------
(* The file system under the root *)

\* the relative paths rglob("*.js") can yield
FileNames == {A_JS, B_JS}

\* the specifiers the files import
Specifiers == {B_JS, LODASH}

\* the three import forms parse_dependencies recognises, in pattern order
Patterns == <<"import_from", "require", "import_bare">>

\* one import statement of a file: its form and its quoted specifier
Statements == [kind : {Patterns[i] : i \in 1..Len(Patterns)}, spec : Specifiers]

\* file contents: sequences of import statements (the empty content imports nothing)
Contents == UNION {[1..n -> Statements] : n \in 0..MaxStmts}

\* what the code meets at one file: whether os.stat succeeds, whether open/read/decode
\* succeeds, and the text read. A file whose stat or read fails has no content observed.
Outcomes ==
    {[stat |-> FALSE, read |-> FALSE, content |-> <<>>],
     [stat |-> TRUE, read |-> FALSE, content |-> <<>>]}
    \cup [stat : {TRUE}, read : {TRUE}, content : Contents]

Trees == UNION {[S -> Outcomes] : S \in SUBSET FileNames}

EmptyTree == <<>>

RootKinds == {"dir", "not_dir", "missing"}

----------------------------------------------------------------------------
(* parse_dependencies *)

\* the captures of one pattern, in match order
Matches(content, pattern) ==
    LET hits == SelectSeq(content, LAMBDA st : st.kind = pattern)
    IN  [i \in 1..Len(hits) |-> hits[i].spec]

\* faulty variant: the side-effect import pattern (import 'x') is left out
parse_dependencies_two_patterns(content) ==
    Matches(content, Patterns[1]) \o Matches(content, Patterns[2])

parse_dependencies(content) ==
    Matches(content, Patterns[1]) \o Matches(content, Patterns[2])
        \o Matches(content, Patterns[3])

----------------------------------------------------------------------------
(* nx.DiGraph: a node -> attributes map and an adjacency (u, v) -> attributes map *)

EmptyGraph == [nodes |-> <<>>, edges |-> <<>>]

\* DiGraph.add_node(n, **attrs): create the node or update its attributes
add_node(g, n, attrs) ==
    [g EXCEPT !.nodes = (n :> attrs) @@ g.nodes]

\* DiGraph.add_edge(u, v, type=t): missing end nodes are created bare; the adjacency
\* entry (u, v) is created or its attributes are updated
add_edge(g, u, v, t) ==
    [nodes |-> g.nodes @@ (u :> "none") @@ (v :> "none"),
     edges |-> (<<u, v>> :> t) @@ g.edges]

\* faulty variant: a dependency counts as local when it is a relative path ("./x")
EdgeType_relative(dep) ==
    IF dep # <<>> /\ Head(dep) = "." THEN "local" ELSE "external"

\* the type the builder gives an edge to dep
EdgeType(dep) == IF EndsWith(dep, DOT_JS) THEN "local" ELSE "external"

\* the loop over dependencies
RECURSIVE AddEdges(_, _, _)
AddEdges(g, f, deps) ==
    IF deps = <<>> THEN g
    ELSE AddEdges(add_edge(g, f, Head(deps), EdgeType(Head(deps))), f, Tail(deps))

\* faulty variant: the read error is not caught inside the iteration
VisitFile_read_uncaught(g, f, o) ==
    IF ~o.stat
    THEN [graph |-> g, raised |-> TRUE]
    ELSE LET g1 == add_node(g, f, "file_info")
         IN  IF ~o.read
             THEN [graph |-> g1, raised |-> TRUE]
             ELSE [graph |-> AddEdges(g1, f, parse_dependencies(o.content)),
                   raised |-> FALSE]

\* one iteration of the loop over rglob: raised tells that an exception left the
\* iteration and reached the handler around the loop
VisitFile(g, f, o) ==
    IF ~o.stat
    THEN [graph |-> g, raised |-> TRUE]
    ELSE LET g1 == add_node(g, f, "file_info")
         IN  IF ~o.read
             THEN [graph |-> g1, raised |-> FALSE]
             ELSE [graph |-> AddEdges(g1, f, parse_dependencies(o.content)),
                   raised |-> FALSE]

\* what rglob yields: nothing unless the root is a directory
Yielded(r, t) == IF r = "dir" THEN DOMAIN t ELSE {}

\* create_graph_from_js_files as a function of the directory and the traversal order
RECURSIVE BuildFrom(_, _, _, _)
BuildFrom(g, t, o, i) ==
    IF i > Len(o) THEN g
    ELSE LET v == VisitFile(g, o[i], t[o[i]])
         IN  IF v.raised THEN v.graph ELSE BuildFrom(v.graph, t, o, i + 1)

----------------------------------------------------------------------------
(* create_graph_from_js_files, step by step *)

\* entry: G = nx.DiGraph(), and rglob fixes a traversal order over the root r
JsEntry(r, o) ==
    /\ root' = r
    /\ G' = EmptyGraph
    /\ order' = o
    /\ idx' = 1
    /\ pcJ' = "loop"

\* a direct call create_graph_from_js_files(path)
JsCall ==
    /\ pcJ = "idle"
    /\ pcH = "idle"
    /\ pcR = "idle"
    /\ pcV = "idle"
    /\ \E o \in Perms(Yielded(root, tree)) : JsEntry(root, o)
    /\ UNCHANGED <<tree, repoVars, handlerVars, vizVars>>

\* one iteration of the for loop; an exception of os.stat leaves the loop for the
\* handler around it
JsVisit ==
    /\ pcJ = "loop"
    /\ idx <= Len(order)
    /\ LET v == VisitFile(G, order[idx], tree[order[idx]])
       IN  /\ G' = v.graph
           /\ idx' = IF v.raised THEN idx ELSE idx + 1
           /\ pcJ' = IF v.raised THEN "caught" ELSE "loop"
    /\ UNCHANGED <<tree, root, order, repoVars, handlerVars, vizVars>>

\* an exception that is no Exception (KeyboardInterrupt, SystemExit) passes both
\* except clauses and leaves the function
JsInterrupt ==
    /\ pcJ = "loop"
    /\ pcJ' = "interrupted"
    /\ UNCHANGED <<tree, root, order, idx, G, repoVars, handlerVars, vizVars>>

\* the loop is exhausted, or the handler around it printed the error: return G
JsReturn ==
    /\ IF pcJ = "loop" THEN idx > Len(order) ELSE pcJ = "caught"
    /\ pcJ' = "done"
    /\ UNCHANGED <<tree, root, order, idx, G, repoVars, handlerVars, vizVars>>

----------------------------------------------------------------------------
(* create_graph_from_github_repo *)

GITHUB == "github.com"

Netlocs == {GITHUB, "gitlab.com", "www.github.com"}

PathChars == {"/", "o"}

UrlPaths == UNION {[1..n -> PathChars] : n \in 0..MaxPathLen}

\* the URLs, as urlparse splits them
Urls == [netloc : Netlocs, path : UrlPaths]

\* no URL given
NoUrl == [netloc |-> "", path |-> <<>>]

\* https://github.com/o/o
ValidUrl == [netloc |-> GITHUB, path |-> <<"/", "o", "/", "o">>]

\* https://github.com/o
OneSegmentUrl == [netloc |-> GITHUB, path |-> <<"/", "o">>]

\* faulty variant: the path is split without stripping its slashes first
validate_github_url_unstripped(url) ==
    /\ url.netloc = GITHUB
    /\ Len(Split(url.path, "/")) = 2

validate_github_url(url) ==
    /\ url.netloc = GITHUB
    /\ Len(Split(Strip(url.path, "/"), "/")) = 2

\* faulty variant: the directory is left in place
rmtree_skipped(dir) == dir

\* shutil.rmtree(temp_dir)
rmtree(dir) == "removed"

\* validation, then tempfile.mkdtemp()
RepoStart ==
    /\ pcR = "start"
    /\ IF ~validate_github_url(repo_url)
       THEN /\ pcR' = "raised"
            /\ exc' = "ValueError"
            /\ UNCHANGED tmpDir
       ELSE /\ pcR' = "clone"
            /\ tmpDir' = "exists"
            /\ UNCHANGED exc
    /\ UNCHANGED <<tree, jsVars, repo_url, cloneAttempted, handlerVars, vizVars>>

\* Repo.clone_from(repo_url, temp_dir): on failure the except clause wraps the error
\* and the finally clause runs; on success the collection starts on temp_dir
RepoClone ==
    /\ pcR = "clone"
    /\ cloneAttempted' = TRUE
    /\ \E ok \in BOOLEAN :
        IF ok
        THEN /\ \E o \in Perms(Yielded("dir", tree)) : JsEntry("dir", o)
             /\ pcR' = "collect"
             /\ UNCHANGED <<tmpDir, exc>>
        ELSE /\ pcR' = "raised"
             /\ exc' = "Exception"
             /\ tmpDir' = rmtree(tmpDir)
             /\ UNCHANGED jsVars
    /\ UNCHANGED <<tree, repo_url, handlerVars, vizVars>>

\* the collection came back: return G, or let its exception pass; the finally clause
\* runs either way
RepoFinish ==
    /\ pcR = "collect"
    /\ pcJ \in {"done", "interrupted"}
    /\ IF pcJ = "done"
       THEN pcR' = "returned" /\ UNCHANGED exc
       ELSE pcR' = "raised" /\ exc' = "BaseException"
    /\ tmpDir' = rmtree(tmpDir)
    /\ UNCHANGED <<tree, jsVars, repo_url, cloneAttempted, handlerVars, vizVars>>

----------------------------------------------------------------------------
(* visualize_graph: the labels *)

NEWLINE == "\n"

\* lst[-2:]
LastTwo(lst) == IF Len(lst) <= 2 THEN lst ELSE SubSeq(lst, Len(lst) - 1, Len(lst))

\* faulty variant: the label is the last segment alone
Label_last_segment(node) ==
    IF Contains(node, "/") THEN Split(node, "/")[Len(Split(node, "/"))] ELSE node

\* the label of a node
Label(node) ==
    IF Contains(node, "/") THEN Join(LastTwo(Split(node, "/")), NEWLINE) ELSE node

\* the labels dict
Labels(g) == [n \in DOMAIN g.nodes |-> Label(n)]

\* a direct call visualize_graph(G)
VisualizeCall ==
    /\ pcV = "idle"
    /\ pcH = "idle"
    /\ pcJ = "idle"
    /\ pcR = "idle"
    /\ labels' = Labels(G)
    /\ pcV' = "drawn"
    /\ UNCHANGED <<tree, jsVars, repoVars, handlerVars>>

----------------------------------------------------------------------------
(* POST /graph *)

Reply(status, body) == [status |-> status, body |-> body]

\* from request.json to the call that builds the graph
HandlerStart ==
    /\ pcH = "start"
    /\ IF data.path = "none" /\ data.repo_url = NoUrl
       THEN /\ response' = Reply("400", "No path or repo_url provided")
            /\ pcH' = "responded"
            /\ UNCHANGED <<tmpPng, jsVars, repo_url, pcR>>
       ELSE /\ tmpPng' = "exists"
            /\ IF data.path # "none"
               THEN IF data.path = "missing"
                    THEN /\ response' = Reply("400", "Invalid or inaccessible path")
                         /\ pcH' = "responded"
                         /\ UNCHANGED <<jsVars, repo_url, pcR>>
                    ELSE /\ \E o \in Perms(Yielded(data.path, tree)) : JsEntry(data.path, o)
                         /\ pcH' = "call_js"
                         /\ UNCHANGED <<response, repo_url, pcR>>
               ELSE /\ repo_url' = data.repo_url
                    /\ pcR' = "start"
                    /\ pcH' = "call_repo"
                    /\ UNCHANGED <<response, jsVars>>
    /\ UNCHANGED <<tree, data, tmpDir, cloneAttempted, exc, vizVars>>

\* the graph came back: visualize_graph writes the image to the temporary file, the
\* handler reads it into a buffer, unlinks the file and sends the buffer; an exception
\* of the rendering is answered with 500
HandlerRender ==
    /\ IF pcH = "call_js" THEN pcJ = "done" ELSE pcH = "call_repo" /\ pcR = "returned"
    /\ \E renderOk \in BOOLEAN :
        IF renderOk
        THEN /\ labels' = Labels(G)
             /\ pcV' = "drawn"
             /\ tmpPng' = "removed"
             /\ response' = Reply("200", "image/png")
        ELSE /\ response' = Reply("500", "render error")
             /\ UNCHANGED <<tmpPng, vizVars>>
    /\ pcH' = "responded"
    /\ UNCHANGED <<tree, jsVars, repoVars, data>>

\* create_graph_from_github_repo raised an Exception: answered with 500
HandlerError ==
    /\ pcH = "call_repo"
    /\ pcR = "raised"
    /\ exc \in {"ValueError", "Exception"}
    /\ response' = Reply("500", exc)
    /\ pcH' = "responded"
    /\ UNCHANGED <<tree, jsVars, repoVars, data, tmpPng, vizVars>>

\* an exception that is no Exception leaves the handler
HandlerPropagate ==
    /\ IF pcH = "call_js" THEN pcJ = "interrupted"
       ELSE pcH = "call_repo" /\ pcR = "raised" /\ exc = "BaseException"
    /\ pcH' = "propagated"
    /\ UNCHANGED <<tree, jsVars, repoVars, data, tmpPng, response, vizVars>>

----------------------------------------------------------------------------
(* Specifications *)

\* a.js holding require('b.js') and require('lodash')
ExampleTree ==
    (A_JS :> [stat |-> TRUE, read |-> TRUE,
              content |-> <<[kind |-> "require", spec |-> B_JS],
                            [kind |-> "require", spec |-> LODASH]>>])

SampleTrees == {EmptyTree, ExampleTree}

NoRequest == [path |-> "none", repo_url |-> NoUrl]

JsIdle ==
    /\ order = <<>>
    /\ idx = 1
    /\ G = EmptyGraph
    /\ pcJ = "idle"

RepoIdle ==
    /\ repo_url = NoUrl
    /\ pcR = "idle"
    /\ tmpDir = "none"
    /\ cloneAttempted = FALSE
    /\ exc = "none"

HandlerIdle ==
    /\ data = NoRequest
    /\ pcH = "idle"
    /\ tmpPng = "none"
    /\ response = "none"

VizIdle ==
    /\ labels = <<>>
    /\ pcV = "idle"

\* create_graph_from_js_files(path) called on every kind of root and every directory
InitCollect ==
    /\ root \in RootKinds
    /\ tree \in (IF root = "dir" THEN Trees ELSE {EmptyTree})
    /\ JsIdle /\ RepoIdle /\ HandlerIdle /\ VizIdle

NextCollect == JsCall \/ JsVisit \/ JsInterrupt \/ JsReturn

SpecCollect == InitCollect /\ [][NextCollect]_vars

\* create_graph_from_github_repo(repo_url) called on every URL, and on a valid URL
\* for every content of the repository
InitRepo ==
    /\ \E u \in Urls, t \in Trees :
        /\ u = ValidUrl \/ t \in SampleTrees
        /\ repo_url = u
        /\ tree = t
    /\ pcR = "start"
    /\ tmpDir = "none"
    /\ cloneAttempted = FALSE
    /\ exc = "none"
    /\ root = "none"
    /\ JsIdle /\ HandlerIdle /\ VizIdle

NextRepo == RepoStart \/ RepoClone \/ JsVisit \/ JsInterrupt \/ JsReturn \/ RepoFinish

SpecRepo == InitRepo /\ [][NextRepo]_vars

\* the bodies of POST /graph
Requests ==
    [path : {"none"} \cup RootKinds, repo_url : {NoUrl, ValidUrl, OneSegmentUrl}]

Init ==
    /\ data \in Requests
    /\ tree \in (IF data.path = "dir" \/ (data.path = "none" /\ data.repo_url = ValidUrl)
                 THEN Trees ELSE {EmptyTree})
    /\ pcH = "start"
    /\ tmpPng = "none"
    /\ response = "none"
    /\ root = "none"
    /\ JsIdle /\ RepoIdle /\ VizIdle

Next ==
    \/ HandlerStart
    \/ JsVisit
    \/ JsInterrupt
    \/ JsReturn
    \/ RepoStart
    \/ RepoClone
    \/ RepoFinish
    \/ HandlerRender
    \/ HandlerError
    \/ HandlerPropagate

Spec == Init /\ [][Next]_vars

\* the node names: paths of one to MaxSegs segments
Segments == {<<"a">>, <<"b">>, <<"a", NEWLINE, "a">>}

NodeNames == {Join(p, "/") : p \in UNION {[1..n -> Segments] : n \in 1..MaxSegs}}

\* visualize_graph(G) called on the graphs without edges
InitLabel ==
    /\ \E n, m \in NodeNames :
        G = [nodes |-> (n :> "file_info") @@ (m :> "file_info"), edges |-> <<>>]
    /\ order = <<>>
    /\ idx = 1
    /\ pcJ = "idle"
    /\ root = "none"
    /\ tree = EmptyTree
    /\ RepoIdle /\ HandlerIdle /\ VizIdle

NextLabel == VisualizeCall

SpecLabel == InitLabel /\ [][NextLabel]_vars

----------------------------------------------------------------------------
(* Properties *)

\* f was collected: its iteration of the loop completed
Collected(f) == \E i \in 1..(idx - 1) : order[i] = f

\* the specifiers extracted from a collected file whose text was read
Extracted(f) == parse_dependencies(tree[f].content)

\* the number of adjacency entries from u to v
NumEdges(g, u, v) == Cardinality({e \in DOMAIN g.edges : e = <<u, v>>})

\* the number of import statements of content that name s
Imports(content, s) == Cardinality({i \in 1..Len(content) : content[i].spec = s})

\* s ends with ".js"
HasJsSuffix(s) ==
    /\ Len(s) >= 3
    /\ s[Len(s) - 2] = "."
    /\ s[Len(s) - 1] = "j"
    /\ s[Len(s)] = "s"

\* the number of non-empty '/'-separated segments of a path
NonEmptySegments(path) ==
    Cardinality({i \in 1..Len(path) : path[i] # "/" /\ (i = 1 \/ path[i - 1] = "/")})

\* C1: whenever create_graph_from_github_repo has returned or raised, the temporary
\* directory does not exist any more; on every exit after validation (graph built,
\* clone failed, collection failed) it was created and has been removed.
C1_WorkspaceRemoved ==
    pcR \in {"returned", "raised"} =>
        /\ tmpDir # "exists"
        /\ exc # "ValueError" => tmpDir = "removed"

\* C1 witness: the collection failed after a successful clone and the directory is gone
C1_Witness ==
    /\ pcR = "raised"
    /\ exc = "BaseException"
    /\ cloneAttempted
    /\ tmpDir = "removed"

\* C2: a URL is accepted only when its host is github.com and its path has exactly two
\* non-empty segments; every other URL raises ValueError, with no temporary directory
\* created and no clone attempted.
C2_OnlyOwnerRepoUrlsAccepted ==
    pcR # "start" =>
        /\ exc # "ValueError" =>
            /\ repo_url.netloc = GITHUB
            /\ NonEmptySegments(repo_url.path) = 2
        /\ ~(repo_url.netloc = GITHUB /\ NonEmptySegments(repo_url.path) = 2) =>
            /\ pcR = "raised"
            /\ exc = "ValueError"
        /\ exc = "ValueError" =>
            /\ pcR = "raised"
            /\ tmpDir = "none"
            /\ ~cloneAttempted

\* C2 witness: https://github.com/owner was rejected before any clone
C2_Witness ==
    /\ repo_url = OneSegmentUrl
    /\ pcR = "raised"
    /\ exc = "ValueError"
    /\ tmpDir = "none"
    /\ ~cloneAttempted

\* C3: when stat fails for one file, only that file's node is omitted: every other
\* file under the root has its node and its outgoing edges in the returned graph,
\* wherever the failing file comes in the traversal order.
C3_StatFailureSkipsOnlyThatFile ==
    (pcJ = "done" /\ root = "dir") =>
        \A f \in DOMAIN tree :
            tree[f].stat =>
                /\ f \in DOMAIN G.nodes
                /\ G.nodes[f] = "file_info"
                /\ \A i \in 1..Len(Extracted(f)) : <<f, Extracted(f)[i]>> \in DOMAIN G.edges

\* C4: create_graph_from_js_files never returns a graph for a root that is missing or
\* is no directory.
C4_InvalidRootFails ==
    root \in {"missing", "not_dir"} => pcJ # "done"

\* C5 (as stated): a specifier the extractor yields k times for a collected file has k
\* edges from the file's node in the built graph.
C5_OneEdgePerOccurrence ==
    pcJ = "done" =>
        \A f \in DOMAIN tree, s \in Specifiers :
            (Collected(f) /\ tree[f].read) => NumEdges(G, f, s) = Count(Extracted(f), s)

\* C5 (amended): the extractor yields a specifier once per import statement naming it,
\* without deduplication, and the built graph holds exactly one edge from the file's
\* node to the specifier's node when the specifier is yielded at least once, none
\* otherwise.
C5_ParallelEdgesCollapse ==
    \A f \in DOMAIN tree, s \in Specifiers :
        (Collected(f) /\ tree[f].read) =>
            /\ Count(Extracted(f), s) = Imports(tree[f].content, s)
            /\ NumEdges(G, f, s) = IF Imports(tree[f].content, s) >= 1 THEN 1 ELSE 0

\* C5 witness: a collected file imports the same module twice and has one edge to it
C5_Witness ==
    /\ pcJ = "done"
    /\ \E f \in DOMAIN tree, s \in Specifiers :
        /\ Collected(f)
        /\ tree[f].read
        /\ Count(Extracted(f), s) = 2
        /\ NumEdges(G, f, s) = 1

\* the directory with the unreadable file f readable and empty of imports
ReadableEmpty(t, f) == [t EXCEPT ![f] = [stat |-> TRUE, read |-> TRUE, content |-> <<>>]]

\* C6: when reading one file fails the build still returns a graph, and the graph is
\* the one built had that file been readable but empty of imports; when no stat fails,
\* the file's node is in the graph with its metadata and without outgoing edges, and
\* every other file has its node.
C6_ReadFailureKeepsNode ==
    (pcJ = "done" /\ root = "dir") =>
        \A f \in DOMAIN tree :
            (tree[f].stat /\ ~tree[f].read) =>
                /\ G = BuildFrom(EmptyGraph, ReadableEmpty(tree, f), order, 1)
                /\ (\A h \in DOMAIN tree : tree[h].stat) =>
                    /\ DOMAIN tree \subseteq DOMAIN G.nodes
                    /\ G.nodes[f] = "file_info"
                    /\ \A e \in DOMAIN G.edges : e[1] # f

\* C6 witness: the unreadable file came first and the file after it has its edges
C6_Witness ==
    /\ pcJ = "done"
    /\ Len(order) = 2
    /\ tree[order[1]].stat
    /\ ~tree[order[1]].read
    /\ tree[order[2]].read
    /\ Extracted(order[2]) # <<>>
    /\ \E e \in DOMAIN G.edges : e[1] = order[2]

\* C7: every specifier extracted from a collected file has a node of exactly its name
\* and an edge from the file's node, typed local if and only if the specifier ends
\* with ".js" and external otherwise, whether or not a file of that name was collected.
C7_EdgeTypedBySuffix ==
    \A f \in DOMAIN tree :
        (Collected(f) /\ tree[f].read) =>
            \A i \in 1..Len(Extracted(f)) :
                LET s == Extracted(f)[i]
                IN  /\ s \in DOMAIN G.nodes
                    /\ <<f, s>> \in DOMAIN G.edges
                    /\ G.edges[<<f, s>>] = "local" <=> HasJsSuffix(s)
                    /\ G.edges[<<f, s>>] = "external" <=> ~HasJsSuffix(s)

\* C7 witness: a.js with require('b.js') and require('lodash') gave the nodes a.js,
\* b.js and lodash, with one local and one external edge out of a.js; b.js was not
\* collected
C7_Witness ==
    /\ pcJ = "done"
    /\ tree = ExampleTree
    /\ DOMAIN G.nodes = {A_JS, B_JS, LODASH}
    /\ G.nodes[B_JS] = "none"
    /\ G.edges = (<<A_JS, B_JS>> :> "local") @@ (<<A_JS, LODASH>> :> "external")

\* C8: the returned graph has the same nodes and the same typed edges whatever order
\* the traversal visits the files of the unchanged directory in.
C8_TraversalOrderIrrelevant ==
    pcJ = "done" =>
        \A o \in Perms(Yielded(root, tree)) :
            LET other == BuildFrom(EmptyGraph, tree, o, 1)
            IN  /\ DOMAIN other.nodes = DOMAIN G.nodes
                /\ other.edges = G.edges

\* C9 (as stated): distinct node names of a graph without edges get distinct labels.
C9_DistinctLabels ==
    pcV = "drawn" =>
        \A n, m \in DOMAIN G.nodes : n # m => labels[n] # labels[m]

\* a name of at most two '/'-separated segments and without a newline
ShortName(n) == Count(n, "/") <= 1 /\ ~Contains(n, NEWLINE)

\* C9 (amended): every node of a graph without edges gets a label, and distinct node
\* names get distinct labels when each has at most two '/'-separated segments and no
\* newline character.
C9_ShortNamesDistinctLabels ==
    pcV = "drawn" =>
        /\ DOMAIN labels = DOMAIN G.nodes
        /\ \A n, m \in DOMAIN G.nodes :
            (n # m /\ ShortName(n) /\ ShortName(m)) => labels[n] # labels[m]

\* C9 witness: two names of two segments each, sharing the last one, were labelled
C9_Witness ==
    /\ pcV = "drawn"
    /\ \E n, m \in DOMAIN G.nodes :
        /\ n # m
        /\ ShortName(n) /\ ShortName(m)
        /\ Count(n, "/") = 1 /\ Count(m, "/") = 1
        /\ n[Len(n)] = m[Len(m)]
        /\ labels[n] # labels[m]

\* C10: when the /graph handler has responded, the temporary .png file it created
\* has been removed.
C10_TempImageRemoved ==
    pcH = "responded" => tmpPng # "exists"

====
